---- MODULE Spec2Model ----
(***************************************************************************)
(* A model of torscaler's high-level consensus store and scaling engine    *)
(* (src/src/highlevel/{containers,families,scale,output}.rs,               *)
(* src/src/writer, src/src/parser/asn.rs).                                 *)
(*                                                                         *)
(* Fingerprints are natural numbers: an ingested fingerprint is a number   *)
(* above 100, a fingerprint minted by FingerprintGenerator is the value of *)
(* its 40-byte big-endian counter (1, 2, 3, ...).  A family value          *)
(* (Rc<Family>) is an identifier; famobj maps the identifiers of the live  *)
(* family values to their member vectors.  Option::None is 0 for a family  *)
(* reference and for an AS.  Hash-map iteration order is fixed to          *)
(* ascending key order.                                                    *)
(***************************************************************************)
EXTENDS Integers, Sequences, FiniteSets, TLC

\* ------------------------------------------------------------------ bounds
MaxOrig == 3        \* relays of an ingested consensus document
MaxRelays == 5      \* relays a consensus may grow to
MaxOps == 2         \* operations performed after the ingest
MaxBw == 12         \* largest bandwidth weight a vertical scaling may produce

\* ----------------------------------------------------------------- helpers
Min(S) == CHOOSE x \in S : \A y \in S : x <= y
Max(S) == CHOOSE x \in S : \A y \in S : x >= y
Range(s) == {s[i] : i \in DOMAIN s}

RECURSIVE SortedSeq(_)
SortedSeq(S) == IF S = {} THEN <<>>
                ELSE LET m == Min(S) IN <<m>> \o SortedSeq(S \ {m})

RECURSIVE SumOver(_, _)
SumOver(S, f) == IF S = {} THEN 0
                 ELSE LET x == CHOOSE y \in S : TRUE
                      IN f[x] + SumOver(S \ {x}, f)

RECURSIVE ProdOver(_, _)
ProdOver(S, f) == IF S = {} THEN 1
                  ELSE LET x == CHOOSE y \in S : TRUE
                       IN f[x] * ProdOver(S \ {x}, f)

\* Rust's integer division truncates toward zero.
TruncDiv(a, b) == LET q == (IF a < 0 THEN -a ELSE a) \div (IF b < 0 THEN -b ELSE b)
                  IN IF (a >= 0) = (b > 0) THEN q ELSE -q

\* ---------------------------------------------------- families.rs
\* retain(|fp| fp != this && copy[fp].contains(this)) on one member vector
RetainMirrored(copy, this, vec) ==
    SelectSeq(vec, LAMBDA fp : fp # this /\ this \in Range(copy[fp]))

\* A variant that lets a relay stay in its own list.
clean_families_keeping_self(family_relations) ==
    [this \in DOMAIN family_relations |->
        SelectSeq(family_relations[this],
                  LAMBDA fp : this \in Range(family_relations[fp]))]

\* A variant that keeps one-sided declarations.
clean_families_keeping_one_sided(family_relations) ==
    [this \in DOMAIN family_relations |->
        SelectSeq(family_relations[this], LAMBDA fp : fp # this)]

clean_families(family_relations) ==
    [this \in DOMAIN family_relations |->
        RetainMirrored(family_relations, this, family_relations[this])]

\* A variant that takes the members of the relay without following them.
remove_transitively_one_level(map, relay) ==
    IF relay \notin DOMAIN map THEN <<map, {}>>
    ELSE LET family_members == Range(map[relay])
             rest == [k \in DOMAIN map \ {relay} |-> map[k]]
         IN IF Cardinality(family_members) > 0
            THEN <<rest, family_members \cup {relay}>>
            ELSE <<rest, family_members>>

\* remove_transitively returns the pair <<remaining map, removed members>>.
RECURSIVE remove_transitively(_, _)
RECURSIVE remove_members(_, _, _)
remove_members(map, todo, acc) ==
    IF todo = <<>> THEN <<map, acc>>
    ELSE LET r == remove_transitively(map, Head(todo))
         IN remove_members(r[1], Tail(todo), acc \cup r[2])

remove_transitively(map, relay) ==
    IF relay \notin DOMAIN map THEN <<map, {}>>
    ELSE LET family_members == Range(map[relay])
             rest == [k \in DOMAIN map \ {relay} |-> map[k]]
         IN IF Cardinality(family_members) > 0
            THEN LET withSelf == family_members \cup {relay}
                 IN remove_members(rest, SortedSeq(withSelf), withSelf)
            ELSE <<rest, family_members>>

\* make_cliques: the state of its loop is <<family_relations, result,
\* families, objects>>; a new Family gets the identifier Len(families) + 1.
RECURSIVE make_cliques_loop(_, _, _, _)
make_cliques_loop(family_relations, result, fams, objs) ==
    IF DOMAIN family_relations = {}
    THEN [result |-> result, families |-> fams, famobj |-> objs]
    ELSE LET relay == Min(DOMAIN family_relations)
             r == remove_transitively(family_relations, relay)
             all_family_members == r[2]
         IN IF Cardinality(all_family_members) = 0
            THEN make_cliques_loop(r[1], (relay :> 0) @@ result, fams, objs)
            ELSE LET rc == Len(fams) + 1
                     members == SortedSeq(all_family_members)
                 IN make_cliques_loop(
                        r[1],
                        [x \in all_family_members |-> rc] @@ result,
                        Append(fams, rc),
                        objs @@ (rc :> members))

make_cliques(family_relations) ==
    make_cliques_loop(family_relations, <<>>, <<>>, <<>>)

\* A histogram that lists every size with the count 1.
size_histogram_of_sizes(fams, objs) ==
    LET sorted == SortedSeq({Len(objs[fams[i]]) : i \in DOMAIN fams})
    IN [i \in DOMAIN sorted |-> <<sorted[i], 1>>]

\* size_histogram: (size, count) pairs in ascending size order (BTreeMap).
size_histogram(fams, objs) ==
    LET sizes == {Len(objs[fams[i]]) : i \in DOMAIN fams}
        count(k) == Cardinality({i \in DOMAIN fams : Len(objs[fams[i]]) = k})
        sorted == SortedSeq(sizes)
    IN [i \in DOMAIN sorted |-> <<sorted[i], count(sorted[i])>>]

\* A variant that forgets the first of the new families in its result.
recompute_families_dropping_one(relays, base) ==
    LET ptrs == {relays[k].family : k \in DOMAIN relays} \ {0}
        members == [p \in ptrs |-> SortedSeq({k \in DOMAIN relays : relays[k].family = p})]
        kept == {p \in ptrs : Len(members[p]) > 1}
        rank(p) == Cardinality({q \in kept : q <= p})
        new_families == [p \in ptrs |-> IF Len(members[p]) > 1 THEN base + rank(p) ELSE 0]
        order == SortedSeq(kept)
    IN [relays |-> [k \in DOMAIN relays |->
                      IF relays[k].family = 0 THEN relays[k]
                      ELSE [relays[k] EXCEPT !.family = new_families[relays[k].family]]],
        families |-> [i \in 1..(Len(order) - 1) |-> new_families[order[i + 1]]],
        famobj |-> [id \in {new_families[p] : p \in kept} |->
                      members[CHOOSE p \in kept : new_families[p] = id]]]

\* A variant that also dissolves a group of two relays.
recompute_families_dropping_pairs(relays, base) ==
    LET ptrs == {relays[k].family : k \in DOMAIN relays} \ {0}
        members == [p \in ptrs |-> SortedSeq({k \in DOMAIN relays : relays[k].family = p})]
        kept == {p \in ptrs : Len(members[p]) > 2}
        rank(p) == Cardinality({q \in kept : q <= p})
        new_families == [p \in ptrs |-> IF Len(members[p]) > 2 THEN base + rank(p) ELSE 0]
        order == SortedSeq(kept)
    IN [relays |-> [k \in DOMAIN relays |->
                      IF relays[k].family = 0 THEN relays[k]
                      ELSE [relays[k] EXCEPT !.family = new_families[relays[k].family]]],
        families |-> [i \in DOMAIN order |-> new_families[order[i]]],
        famobj |-> [id \in {new_families[p] : p \in kept} |->
                      members[CHOOSE p \in kept : new_families[p] = id]]]

\* A variant that keeps a family of a single relay.
recompute_families_keeping_singletons(relays, base) ==
    LET ptrs == {relays[k].family : k \in DOMAIN relays} \ {0}
        members == [p \in ptrs |-> SortedSeq({k \in DOMAIN relays : relays[k].family = p})]
        rank(p) == Cardinality({q \in ptrs : q <= p})
        new_families == [p \in ptrs |-> base + rank(p)]
        order == SortedSeq(ptrs)
    IN [relays |-> [k \in DOMAIN relays |->
                      IF relays[k].family = 0 THEN relays[k]
                      ELSE [relays[k] EXCEPT !.family = new_families[relays[k].family]]],
        families |-> [i \in DOMAIN order |-> new_families[order[i]]],
        famobj |-> [id \in {new_families[p] : p \in ptrs} |->
                      members[CHOOSE p \in ptrs : new_families[p] = id]]]

\* recompute_families: group the relays by the identity of their family
\* reference; every group of more than one relay gets a new Family whose
\* identifier is above base (so it differs from every live one).
recompute_families(relays, base) ==
    LET ptrs == {relays[k].family : k \in DOMAIN relays} \ {0}
        members == [p \in ptrs |-> SortedSeq({k \in DOMAIN relays : relays[k].family = p})]
        kept == {p \in ptrs : Len(members[p]) > 1}
        rank(p) == Cardinality({q \in kept : q <= p})
        new_families == [p \in ptrs |-> IF Len(members[p]) > 1 THEN base + rank(p) ELSE 0]
        order == SortedSeq(kept)
    IN [relays |-> [k \in DOMAIN relays |->
                      IF relays[k].family = 0 THEN relays[k]
                      ELSE [relays[k] EXCEPT !.family = new_families[relays[k].family]]],
        families |-> [i \in DOMAIN order |-> new_families[order[i]]],
        famobj |-> [id \in {new_families[p] : p \in kept} |->
                      members[CHOOSE p \in kept : new_families[p] = id]]]

\* Dropping the family values nobody refers to any more and compacting the
\* identifiers of the live ones (the numeric value of a pointer is not
\* observable by the program).
Compact(c) ==
    LET live == Range(c.families) \cup ({c.relays[k].family : k \in DOMAIN c.relays} \ {0})
        newid(id) == Cardinality({q \in live : q <= id})
    IN [relays |-> [k \in DOMAIN c.relays |->
                      IF c.relays[k].family = 0 THEN c.relays[k]
                      ELSE [c.relays[k] EXCEPT !.family = newid(c.relays[k].family)]],
        families |-> [i \in DOMAIN c.families |-> newid(c.families[i])],
        famobj |-> [n \in {newid(id) : id \in live} |->
                      c.famobj[CHOOSE id \in live : newid(id) = n]]]

\* ---------------------------------------------------- containers.rs stats
\* A probability is the pair <<numerator, denominator>> of the f32 quotient;
\* a denominator of 0 is the NaN of 0.0 / 0.0.
prob_family_of(relays) ==
    <<Cardinality({k \in DOMAIN relays : relays[k].family # 0}), Cardinality(DOMAIN relays)>>

\* relays[fp] in prob_family_sameas panics when a member is no key of relays.
StatsPanic(relays, fams, objs) ==
    \E i \in DOMAIN fams : \E j \in DOMAIN objs[fams[i]] :
        objs[fams[i]][j] \notin DOMAIN relays

\* A same-AS share that leaves out the pair of a member with itself.
prob_family_sameas_of_distinct_pairs(relays, fams, objs) ==
    LET I == DOMAIN fams
        mem(i) == objs[fams[i]]
        total == [i \in I |-> Len(mem(i)) * Len(mem(i))]
        same == [i \in I |->
                  Cardinality({p \in (DOMAIN mem(i)) \X (DOMAIN mem(i)) :
                      /\ p[1] # p[2]
                      /\ relays[mem(i)[p[1]]].asn = relays[mem(i)[p[2]]].asn})]
        scaled == [i \in I |-> same[i] * ProdOver(I \ {i}, total)]
    IN <<SumOver(I, scaled), Len(fams) * ProdOver(I, total)>>

prob_family_sameas_of(relays, fams, objs) ==
    LET I == DOMAIN fams
        mem(i) == objs[fams[i]]
        total == [i \in I |-> Len(mem(i)) * Len(mem(i))]
        same == [i \in I |->
                  Cardinality({p \in (DOMAIN mem(i)) \X (DOMAIN mem(i)) :
                      relays[mem(i)[p[1]]].asn = relays[mem(i)[p[2]]].asn})]
        scaled == [i \in I |-> same[i] * ProdOver(I \ {i}, total)]
    IN <<SumOver(I, scaled), Len(fams) * ProdOver(I, total)>>

\* ---------------------------------------------------- writer/mod.rs
weightscale == 10000
margin == 10

HasFlag(relay, flag) == flag \in relay.flags

\* The class sums of recompute_bw_weights, each starting at 1.
ClassOf(relay) ==
    LET is_exit == HasFlag(relay, "Exit") /\ ~HasFlag(relay, "BadExit")
    IN IF is_exit /\ HasFlag(relay, "Guard") THEN "D"
       ELSE IF is_exit THEN "E"
       ELSE IF HasFlag(relay, "Guard") THEN "G"
       ELSE IF HasFlag(relay, "Guard") THEN "M"
       ELSE "none"

ClassSum(relays, cls) ==
    LET bw == [k \in DOMAIN relays |-> relays[k].bandwidth_weight]
    IN 1 + SumOver({k \in DOMAIN relays : ClassOf(relays[k]) = cls}, bw)

check_eq(a, b, mg) == IF (a - b) >= 0 THEN (a - b) <= mg ELSE (b - a) <= mg

check_range(a, b, c, d, e, f, g, mx) ==
    /\ a >= 0 /\ a <= mx /\ b >= 0 /\ b <= mx /\ c >= 0 /\ c <= mx
    /\ d >= 0 /\ d <= mx /\ e >= 0 /\ e <= mx /\ f >= 0 /\ f <= mx
    /\ g >= 0 /\ g <= mx

\* w is the record of the seven weights; the result is "None" or the error.
check_weights_errors(w, G, M, E, D, T, mg) ==
    IF ~check_eq(w.Wed + w.Wmd + w.Wgd, weightscale, mg) THEN "SumD"
    ELSE IF ~check_eq(w.Wmg + w.Wgg, weightscale, mg) THEN "SumG"
    ELSE IF ~check_eq(w.Wme + w.Wee, weightscale, mg) THEN "SumE"
    ELSE IF ~check_range(w.Wgg, w.Wgd, w.Wmg, w.Wme, w.Wmd, w.Wed, w.Wee, weightscale)
         THEN "Range"
    ELSE IF ~check_eq(w.Wgg * G + w.Wgd * D, w.Wee * E + w.Wed * D, TruncDiv(mg * T, 3))
         THEN "BalanceEg"
    ELSE IF ~check_eq(w.Wgg * G + w.Wgd * D,
                      M * weightscale + w.Wmd * D + w.Wme * E + w.Wmg * G,
                      TruncDiv(mg * T, 3))
         THEN "BalanceMid"
    ELSE "None"

W7(Wgg, Wgd, Wmg, Wme, Wmd, Wee, Wed) ==
    [Wgg |-> Wgg, Wgd |-> Wgd, Wmg |-> Wmg, Wme |-> Wme, Wmd |-> Wmd,
     Wee |-> Wee, Wed |-> Wed]

\* A variant of Case 1 that keeps all of G for the Guard position and all of
\* E for the Exit position.
Case1_without_middle_share(G, M, E, D) ==
    W7(weightscale, weightscale \div 3, 0, 0, weightscale \div 3, weightscale,
       weightscale \div 3)

Case1(G, M, E, D) ==
    LET Wee == TruncDiv(weightscale * (E + G + M), 3 * E)
        Wmg == TruncDiv(weightscale * (2 * G - E - M), 3 * G)
    IN W7(weightscale - Wmg, weightscale \div 3, Wmg, weightscale - Wee,
          weightscale \div 3, Wee, weightscale \div 3)

Case2a(G, M, E, D) ==
    IF E < G THEN W7(weightscale, 0, 0, 0, 0, weightscale, weightscale)
    ELSE W7(weightscale, weightscale, 0, 0, 0, weightscale, 0)

Case2b1(G, M, E, D) ==
    LET Wee == TruncDiv(weightscale * (E - G + M), E)
        Wed == TruncDiv(weightscale * (D - 2 * E + 4 * G - 2 * M), 3 * D)
        Wme == TruncDiv(weightscale * (G - M), E)
    IN W7(weightscale, TruncDiv(weightscale - Wed, 2), 0, Wme,
          TruncDiv(weightscale - Wed, 2), Wee, Wed)

Case2b2(G, M, E, D) ==
    LET Wed == TruncDiv(weightscale * (D - 2 * E + G + M), 3 * D)
        Wmd0 == TruncDiv(weightscale * (D - 2 * M + G + E), 3 * D)
        Wmd == IF Wmd0 < 0 THEN 0 ELSE Wmd0
    IN W7(weightscale, weightscale - Wed - Wmd, 0, 0, Wmd, weightscale, Wed)

Case2b(G, M, E, D) ==
    LET T == E + G + D + M
        first == Case2b1(G, M, E, D)
    IN IF check_weights_errors(first, G, M, E, D, T, margin) # "None"
       THEN Case2b2(G, M, E, D) ELSE first

Case3a(G, M, E, D) ==
    IF G < E
    THEN LET Wme == IF E < M THEN 0 ELSE TruncDiv(weightscale * (E - M), 2 * E)
         IN W7(weightscale, weightscale, 0, Wme, 0, weightscale - Wme, 0)
    ELSE LET Wmg == IF G < M THEN 0 ELSE TruncDiv(weightscale * (G - M), 2 * G)
         IN W7(weightscale - Wmg, 0, Wmg, 0, 0, weightscale, weightscale)

\* A variant of Case 3b whose Wme and Wmg are not the complements.
Case3b_without_complement(G, M, E, D) ==
    IF G < E
    THEN LET Wgd == TruncDiv(weightscale * (D - 2 * G + E + M), 3 * D)
             Wee == TruncDiv(weightscale * (E + M), 2 * E)
         IN W7(weightscale, Wgd, 0, weightscale,
               TruncDiv(weightscale - Wgd, 2), Wee, TruncDiv(weightscale - Wgd, 2))
    ELSE LET Wed == TruncDiv(weightscale * (D - 2 * E + G + M), 3 * D)
             Wgg == TruncDiv(weightscale * (G + M), 2 * G)
         IN W7(Wgg, TruncDiv(weightscale - Wed, 2), weightscale, 0,
               TruncDiv(weightscale - Wed, 2), weightscale, Wed)

Case3b(G, M, E, D) ==
    IF G < E
    THEN LET Wgd == TruncDiv(weightscale * (D - 2 * G + E + M), 3 * D)
             Wee == TruncDiv(weightscale * (E + M), 2 * E)
         IN W7(weightscale, Wgd, 0, weightscale - Wee,
               TruncDiv(weightscale - Wgd, 2), Wee, TruncDiv(weightscale - Wgd, 2))
    ELSE LET Wed == TruncDiv(weightscale * (D - 2 * E + G + M), 3 * D)
             Wgg == TruncDiv(weightscale * (G + M), 2 * G)
         IN W7(Wgg, TruncDiv(weightscale - Wed, 2), weightscale - Wgg, 0,
               TruncDiv(weightscale - Wed, 2), weightscale, Wed)

CaseName(G, M, E, D) ==
    LET T == E + G + D + M
    IN IF 3 * E >= T /\ 3 * G >= T THEN "1"
       ELSE IF 3 * E < T /\ 3 * G < T
            THEN (IF (IF E < G THEN E ELSE G) + D < (IF E < G THEN G ELSE E)
                  THEN "2a" ELSE "2b")
       ELSE IF 3 * ((IF E < G THEN E ELSE G) + D) < T THEN "3a" ELSE "3b"

\* The seven weights the casework assigns.
SolveWeights(G, M, E, D) ==
    LET c == CaseName(G, M, E, D)
    IN CASE c = "1" -> Case1(G, M, E, D)
         [] c = "2a" -> Case2a(G, M, E, D)
         [] c = "2b" -> Case2b(G, M, E, D)
         [] c = "3a" -> Case3a(G, M, E, D)
         [] OTHER -> Case3b(G, M, E, D)

\* panic!("bw weight error"): Case 2b ends with an error other than BalanceMid.
SolvePanics(G, M, E, D) ==
    /\ CaseName(G, M, E, D) = "2b"
    /\ check_weights_errors(SolveWeights(G, M, E, D), G, M, E, D, E + G + D + M, margin)
          \notin {"None", "BalanceMid"}

\* `v as u64`: a negative v becomes 2^64 + v.  The model keeps the negative
\* number as the name of that value (it is outside 0..weightscale either way).
AsU64(v) == v

\* The 19 published entries.
Published(w) ==
    [Wbd |-> AsU64(w.Wmd), Wbe |-> AsU64(w.Wme), Wbg |-> AsU64(w.Wmg),
     Wbm |-> weightscale, Wdb |-> weightscale, Web |-> weightscale,
     Wed |-> AsU64(w.Wed), Wee |-> AsU64(w.Wee), Weg |-> AsU64(w.Wed),
     Wem |-> AsU64(w.Wee), Wgb |-> weightscale, Wgd |-> AsU64(w.Wgd),
     Wgg |-> AsU64(w.Wgg), Wgm |-> AsU64(w.Wgg), Wmb |-> weightscale,
     Wmd |-> AsU64(w.Wmd), Wme |-> AsU64(w.Wme), Wmg |-> AsU64(w.Wmg),
     Wmm |-> weightscale]

BwPanics(relays) ==
    SolvePanics(ClassSum(relays, "G"), ClassSum(relays, "M"),
                ClassSum(relays, "E"), ClassSum(relays, "D"))

recompute_bw_weights(relays) ==
    Published(SolveWeights(ClassSum(relays, "G"), ClassSum(relays, "M"),
                           ClassSum(relays, "E"), ClassSum(relays, "D")))

\* ---------------------------------------------------------------- state
VARIABLES phase,              \* "start", "loaded", "failed", "panicked", "diverged"
          relays,             \* Consensus::relays: key fingerprint -> Relay
          families,           \* Consensus::families: Vec<Rc<Family>>
          famobj,             \* the live Family values: identifier -> members
          weights,            \* Consensus::weights
          prob_family,        \* Consensus::prob_family
          prob_family_sameas, \* Consensus::prob_family_sameas
          family_sizes,       \* Consensus::family_sizes
          call,               \* the last call made: operation, arguments, outcome
          ops                 \* operations performed after the ingest

vars == <<phase, relays, families, famobj, weights, prob_family,
          prob_family_sameas, family_sizes, call, ops>>

consensus == <<relays, families, famobj, weights, prob_family,
               prob_family_sameas, family_sizes>>

\* scale, minted: scale_horizontally; existing: the keys the call found;
\* scales: the vertical scalings; before: what the call found under each key
\* (bandwidth weights for a vertical scaling, family references for
\* remove_relays_by, the family_sizes histogram for scale_horizontally);
\* deferred: the relays scale_horizontally gave a new family; after: the
\* operation a verify_weights or remove_relays_by followed; input: the
\* argument of a function applied on its own; idle: the condition of
\* remove_relays_by was bw_observed_was_zero; found: the relays it found.
NoCall == [op |-> "none", result |-> "ok", scale |-> <<0, 1>>, minted |-> {},
           existing |-> {}, scales |-> <<>>, before |-> <<>>, after |-> "none",
           input |-> <<>>, idle |-> FALSE, found |-> <<>>, deferred |-> {}]

Called(op, result) == [NoCall EXCEPT !.op = op, !.result = result]

Init ==
    /\ phase = "start"
    /\ relays = <<>>
    /\ families = <<>>
    /\ famobj = <<>>
    /\ weights = Published(W7(0, 0, 0, 0, 0, 0, 0))
    /\ prob_family = <<0, 0>>
    /\ prob_family_sameas = <<0, 0>>
    /\ family_sizes = <<>>
    /\ call = NoCall
    /\ ops = 0

\* The consensus c = [relays, families, famobj] with weights w becomes the
\* state; the statistics are those of recompute_stats.
Install(c, w) ==
    /\ relays' = c.relays
    /\ families' = c.families
    /\ famobj' = c.famobj
    /\ weights' = w
    /\ prob_family' = prob_family_of(c.relays)
    /\ prob_family_sameas' = prob_family_sameas_of(c.relays, c.families, c.famobj)
    /\ family_sizes' = size_histogram(c.families, c.famobj)

\* A panic ends the process; an endless loop never returns.
Abort(op, how) ==
    /\ phase' = (IF how = "panic" THEN "panicked" ELSE "diverged")
    /\ call' = Called(op, how)
    /\ UNCHANGED <<consensus, ops>>

\* ------------------------------------------- the documents of an ingest
UnknownFP == 100 + MaxOrig + 1
ConsFP(n) == {100 + i : i \in 1..n}

FlagMenu == << {"Guard"}, {"Exit"}, {"Exit", "Guard"}, {}, {"Exit", "BadExit"} >>
AsnMenu == << <<1, 1, 2>>, <<1, 2, 0>> >>
BwMenu == << <<2, 3, 5>>, <<4, 4, 1>> >>
Profiles == {1, 2}

\* The consensus entry (ShallowRelay) of relay i under profile p.
ShallowRelay(i, p) ==
    [fingerprint |-> 100 + i,
     digest |-> i,
     flags |-> FlagMenu[((i + 2 * (p - 1) - 1) % 5) + 1],
     asn |-> AsnMenu[p][((i - 1) % 3) + 1],
     bandwidth_weight |-> BwMenu[p][((i - 1) % 3) + 1]]

\* The fingerprint of the descriptor whose digest is that of relay i.
DescriptorVariants == {"own", "swap", "dup", "unknown"}
DescriptorFingerprint(i, variant) ==
    CASE variant = "swap" /\ i = 1 -> 102
      [] variant = "swap" /\ i = 2 -> 101
      [] variant = "dup" /\ i = 1 -> 102
      [] variant = "unknown" /\ i = 1 -> UnknownFP
      [] OTHER -> 100 + i

\* The server descriptor with digest i: relay 1 also lists an unknown
\* fingerprint, the last relay of profile 2 has observed no bandwidth.
Descriptor(i, n, p, variant, decl) ==
    [digest |-> i,
     fingerprint |-> DescriptorFingerprint(i, variant),
     family_members |-> SortedSeq(decl[i] \cup (IF i = 1 THEN {UnknownFP} ELSE {})),
     bandwidth_observed |-> IF p = 2 /\ i = n THEN 0 ELSE 1]

\* ------------------------------------------- Consensus::combine_documents
from_consensus_entry_and_descriptor(cons_relay, descriptor) ==
    [fingerprint |-> cons_relay.fingerprint,
     flags |-> cons_relay.flags,
     asn |-> cons_relay.asn,
     bandwidth_weight |-> cons_relay.bandwidth_weight,
     family |-> 0,
     bw_observed_was_zero |-> (descriptor.bandwidth_observed = 0)]

\* filter_family_member for a FamilyMember::Fingerprint
filter_family_members(known_fingerprints, members) ==
    SelectSeq(members, LAMBDA fp : fp \in known_fingerprints)

\* An outcome is a status ("ok", "MissingDescriptor", "panic", "diverge") and,
\* when ok, the relays and families it leaves.
Failed(status) == [status |-> status, relays |-> <<>>, families |-> <<>>, famobj |-> <<>>]
Done(c) == [status |-> "ok", relays |-> c.relays, families |-> c.families,
            famobj |-> c.famobj]
Minting(outcome, fingerprints, deferred) ==
    [status |-> outcome.status, relays |-> outcome.relays, families |-> outcome.families,
     famobj |-> outcome.famobj, minted |-> fingerprints, deferred |-> deferred]

\* entries: the consensus relays, descs: digest -> descriptor.
combine_documents(entries, descs) ==
    LET known_fingerprints == {entries[i].fingerprint : i \in DOMAIN entries}
        family_relations ==
            [fp \in known_fingerprints |->
                LET e == entries[CHOOSE i \in DOMAIN entries : entries[i].fingerprint = fp]
                IN filter_family_members(known_fingerprints, descs[e.digest].family_members)]
        \* relays.insert(descriptor.fingerprint, ...): a later entry replaces
        \* an earlier one under the same key
        keys == {descs[entries[i].digest].fingerprint : i \in DOMAIN entries}
        joined == [k \in keys |->
                    LET i == Max({j \in DOMAIN entries :
                                     descs[entries[j].digest].fingerprint = k})
                    IN from_consensus_entry_and_descriptor(entries[i], descs[entries[i].digest])]
        cliques == make_cliques(clean_families(family_relations))
    IN IF \E i \in DOMAIN entries : entries[i].digest \notin DOMAIN descs
       THEN Failed("MissingDescriptor")
       ELSE IF \E k \in keys : k \notin DOMAIN cliques.result
       THEN Failed("panic")
       ELSE IF StatsPanic(joined, cliques.families, cliques.famobj)
       THEN Failed("panic")
       ELSE Done([relays |-> [k \in keys |-> [joined[k] EXCEPT !.family = cliques.result[k]]],
                  families |-> cliques.families,
                  famobj |-> cliques.famobj])

\* The digests of the consensus entries that none of the descriptors has.
Undescribed(entries, descs) ==
    {entries[i].digest : i \in DOMAIN entries} \ {descs[d].digest : d \in DOMAIN descs}

\* The documents: n relays of profile p, every descriptor present; decl[i]
\* are the consensus members relay i declares, selfdecl adds itself to them.
Ingest ==
    /\ phase = "start"
    /\ \E n \in 1..MaxOrig, p \in Profiles, variant \in DescriptorVariants,
          selfdecl \in BOOLEAN, right_weights \in BOOLEAN :
        \E others \in [1..n -> SUBSET ConsFP(n)] :
          LET decl == [i \in 1..n |-> others[i] \cup (IF selfdecl THEN {100 + i} ELSE {})]
              entries == [i \in 1..n |-> ShallowRelay(i, p)]
              descs == [i \in 1..n |-> Descriptor(i, n, p, variant, decl)]
              c == combine_documents(entries, descs)
          IN /\ variant \in {"swap", "dup"} => n >= 2
             /\ \A i \in 1..n : (100 + i) \notin others[i]
             /\ IF c.status = "panic"
                THEN /\ phase' = "panicked"
                     /\ call' = [Called("combine_documents", "panic")
                                    EXCEPT !.input = <<n, Undescribed(entries, descs)>>]
                     /\ UNCHANGED <<consensus, ops>>
                ELSE /\ phase' = "loaded"
                     /\ call' = [Called("combine_documents", "ok")
                                    EXCEPT !.input = <<n, Undescribed(entries, descs)>>]
                     /\ Install(c, IF right_weights THEN recompute_bw_weights(c.relays)
                                   ELSE weights)
                     /\ UNCHANGED ops

\* The documents lack the descriptor of one consensus relay.
IngestMissing ==
    /\ phase = "start"
    /\ \E n \in 1..MaxOrig, p \in Profiles, missing \in 1..MaxOrig :
          LET entries == [i \in 1..n |-> ShallowRelay(i, p)]
              descs == [i \in (1..n) \ {missing} |->
                          Descriptor(i, n, p, "own", [j \in 1..n |-> {}])]
              c == combine_documents(entries, descs)
          IN /\ missing <= n
             /\ c.status = "MissingDescriptor"
             /\ phase' = "failed"
             /\ call' = [Called("combine_documents", "err")
                            EXCEPT !.input = <<n, Undescribed(entries, descs)>>]
             /\ UNCHANGED <<consensus, ops>>

\* ------------------------------------------- Consensus::verify_weights
\* "Ok" when the stored weights equal the recomputed ones.
verify_weights(stored, rel) ==
    IF stored = recompute_bw_weights(rel) THEN "ok" ELSE "err"

VerifyWeights ==
    /\ phase = "loaded"
    /\ ops < MaxOps
    /\ IF BwPanics(relays)
       THEN Abort("verify_weights", "panic")
       ELSE /\ call' = [Called("verify_weights", verify_weights(weights, relays))
                        EXCEPT !.after = call.op]
            /\ weights' = recompute_bw_weights(relays)
            /\ ops' = ops + 1
            /\ UNCHANGED <<phase, relays, families, famobj, prob_family,
                           prob_family_sameas, family_sizes>>

\* ------------------------------------------- Consensus::remove_relays_by
MaxId(fams, rel) == Max(Range(fams) \cup {rel[k].family : k \in DOMAIN rel} \cup {0})

\* A removal that retains the relays meeting the condition.
remove_relays_by_retaining_matches(rel, fams, condition) ==
    LET retained == [k \in DOMAIN rel \cap condition |-> rel[k]]
    IN Compact(recompute_families(retained, MaxId(fams, rel)))

\* condition is the set of keys whose relay meets the caller's condition.
remove_relays_by(rel, fams, condition) ==
    LET retained == [k \in DOMAIN rel \ condition |-> rel[k]]
    IN Compact(recompute_families(retained, MaxId(fams, rel)))

\* A tail that leaves the stored weights as they are.
Finish_without_weights(op, c) ==
    /\ phase' = phase
    /\ call' = op
    /\ Install(c, weights)
    /\ ops' = ops + 1

\* The tail of every mutating operation: recompute_bw_weights, then
\* recompute_stats.
Finish(op, c) ==
    IF BwPanics(c.relays)
    THEN Abort(op.op, "panic")
    ELSE /\ phase' = phase
         /\ call' = op
         /\ Install(c, recompute_bw_weights(c.relays))
         /\ ops' = ops + 1

\* torscaler.rs: the condition of --remove-idle-relays
remove_idle_relays(rel) == {k \in DOMAIN rel : rel[k].bw_observed_was_zero}

\* The name under which a call is remembered by the one that follows it.
LastCall == IF call.op = "remove_relays_by" /\ call.idle /\ call.result = "ok"
            THEN "remove_idle_relays" ELSE call.op

RemoveRelaysBy ==
    /\ phase = "loaded"
    /\ ops < MaxOps
    /\ \E condition \in SUBSET DOMAIN relays :
          Finish([Called("remove_relays_by", "ok") EXCEPT
                     !.existing = DOMAIN relays,
                     !.before = [k \in DOMAIN relays |-> relays[k].family],
                     !.idle = (condition = remove_idle_relays(relays)),
                     !.found = relays,
                     !.after = LastCall],
                 remove_relays_by(relays, families, condition))

\* ------------------------------------------- scale.rs: vertical scaling
\* A factor is the pair <<numerator, denominator>> of a non-negative f32 that
\* is a dyadic rational, so that the f32 product with a small integer is exact.
ScaleVectors ==
    { <<>>, << <<1, 2>> >>, << <<2, 1>> >>, << <<1, 2>>, <<2, 1>> >>,
      << <<2, 1>>, <<1, 2>>, <<2, 1>> >>, << <<1, 2>>, <<1, 2>>, <<2, 1>> >> }

\* ((bandwidth_weight as f32) * factor) as u64
ScaledBandwidth(bw, factor) == TruncDiv(bw * factor[1], factor[2])

\* The orders sort_unstable_by_key may leave the values of the map in: every
\* arrangement of the keys that ascends in bandwidth_weight.
RECURSIVE OrdersOf(_, _)
OrdersOf(rel, keys) ==
    IF keys = {} THEN {<<>>}
    ELSE LET least == Min({rel[k].bandwidth_weight : k \in keys})
         IN UNION { {<<k>> \o rest : rest \in OrdersOf(rel, keys \ {k})}
                    : k \in {k \in keys : rel[k].bandwidth_weight = least} }
SortedOrders(rel) == OrdersOf(rel, DOMAIN rel)

\* zip(scales ++ [last_scale], relays.chunks(num_relays / num_groups)): the
\* scale of every fingerprint that lies in a chunk the zip reaches.
bandwidth_to_scale(rel, order, scale_per_bandwidth) ==
    LET num_relays == Len(order)
        num_groups == Len(scale_per_bandwidth)
        chain == Append(scale_per_bandwidth, scale_per_bandwidth[num_groups])
        chunk(i) == (i - 1) \div (num_relays \div num_groups)
        reached == {i \in 1..num_relays : chunk(i) + 1 <= Len(chain)}
        fps == {rel[order[i]].fingerprint : i \in reached}
    IN [fp \in fps |->
          chain[chunk(Max({i \in reached : rel[order[i]].fingerprint = fp})) + 1]]

\* A scaling that also takes every relay out of its family.
scale_vertically_by_leaving_families(rel, relay_scale) ==
    [k \in DOMAIN rel |->
        [rel[k] EXCEPT !.bandwidth_weight = ScaledBandwidth(@, relay_scale[k]),
                       !.family = 0]]

\* scale_vertically_by without its tail: relay_scale maps a key to its factor.
scale_vertically_by(rel, relay_scale) ==
    [k \in DOMAIN rel |->
        [rel[k] EXCEPT !.bandwidth_weight = ScaledBandwidth(@, relay_scale[k])]]

\* Every fingerprint -> scale table the call may build, "panic" when some
\* relay is left without a scale.
ScaleTables(rel, scale_per_bandwidth) ==
    {bandwidth_to_scale(rel, order, scale_per_bandwidth) : order \in SortedOrders(rel)}

ScaleVerticallyByBandwidthRank ==
    /\ phase = "loaded"
    /\ ops < MaxOps
    /\ \E scale_per_bandwidth \in ScaleVectors :
          LET op == [Called("scale_vertically_by_bandwidth_rank", "ok")
                        EXCEPT !.scales = scale_per_bandwidth,
                               !.before = [k \in DOMAIN relays |-> relays[k].bandwidth_weight]]
              Panicked == /\ phase' = "panicked"
                          /\ call' = [op EXCEPT !.result = "panic"]
                          /\ UNCHANGED <<consensus, ops>>
          IN IF Len(scale_per_bandwidth) < 1
                \/ Cardinality(DOMAIN relays) < Len(scale_per_bandwidth)
             THEN Panicked
             ELSE \E table \in ScaleTables(relays, scale_per_bandwidth) :
                    IF \E k \in DOMAIN relays : relays[k].fingerprint \notin DOMAIN table
                    THEN Panicked
                    ELSE LET scaled == scale_vertically_by(relays,
                                          [k \in DOMAIN relays |-> table[relays[k].fingerprint]])
                         IN /\ \A k \in DOMAIN scaled : scaled[k].bandwidth_weight <= MaxBw
                            /\ Finish(op, [relays |-> scaled, families |-> families,
                                           famobj |-> famobj])

\* ------------------------------------------- scale.rs: FlagWeights
\* A weight is a pair <<numerator, denominator>>; a denominator of 0 is the
\* infinity or NaN of a division by 0.0.  The factors have denominators > 0.
RLeq(x, y) == x[1] * y[2] <= y[1] * x[2]

\* Weights that set the larger factor first: the relays of both flags get
\* the larger of the two factors and the other class compensates.
from_flag_factors_larger_first(middle_factor, exit_factor, guard_factor, n_e, n_g, n_d) ==
    IF ~RLeq(guard_factor, exit_factor)
    THEN [weight_g |-> guard_factor, weight_d |-> guard_factor, weight_m |-> middle_factor,
          weight_e |-> << exit_factor[1] * guard_factor[2] * (n_e + n_d)
                            - guard_factor[1] * exit_factor[2] * n_d,
                          exit_factor[2] * guard_factor[2] * n_e >>]
    ELSE [weight_e |-> exit_factor, weight_d |-> exit_factor, weight_m |-> middle_factor,
          weight_g |-> << guard_factor[1] * exit_factor[2] * (n_g + n_d)
                            - exit_factor[1] * guard_factor[2] * n_d,
                          guard_factor[2] * exit_factor[2] * n_g >>]

\* Weights that give each class its own factor and the relays of both
\* flags the smaller one, with no compensation.
from_flag_factors_uncompensated(middle_factor, exit_factor, guard_factor, n_e, n_g, n_d) ==
    [weight_e |-> exit_factor, weight_g |-> guard_factor, weight_m |-> middle_factor,
     weight_d |-> IF RLeq(guard_factor, exit_factor) THEN guard_factor ELSE exit_factor]

from_flag_factors_by_value(middle_factor, exit_factor, guard_factor, n_e, n_g, n_d) ==
    IF RLeq(guard_factor, exit_factor)
    THEN [weight_g |-> guard_factor, weight_d |-> guard_factor, weight_m |-> middle_factor,
          weight_e |-> << exit_factor[1] * guard_factor[2] * (n_e + n_d)
                            - guard_factor[1] * exit_factor[2] * n_d,
                          exit_factor[2] * guard_factor[2] * n_e >>]
    ELSE [weight_e |-> exit_factor, weight_d |-> exit_factor, weight_m |-> middle_factor,
          weight_g |-> << guard_factor[1] * exit_factor[2] * (n_g + n_d)
                            - exit_factor[1] * guard_factor[2] * n_d,
                          guard_factor[2] * exit_factor[2] * n_g >>]

from_flag_factors_by_number(rel, middle_factor, exit_factor, guard_factor) ==
    LET count(e, g) == Cardinality({k \in DOMAIN rel :
                          HasFlag(rel[k], "Exit") = e /\ HasFlag(rel[k], "Guard") = g})
    IN from_flag_factors_by_value(middle_factor, exit_factor, guard_factor,
                                  count(TRUE, FALSE), count(FALSE, TRUE), count(TRUE, TRUE))

get_relay_weight(flag_weights, relay) ==
    IF HasFlag(relay, "Exit") /\ ~HasFlag(relay, "Guard") THEN flag_weights.weight_e
    ELSE IF ~HasFlag(relay, "Exit") /\ HasFlag(relay, "Guard") THEN flag_weights.weight_g
    ELSE IF HasFlag(relay, "Exit") /\ HasFlag(relay, "Guard") THEN flag_weights.weight_d
    ELSE flag_weights.weight_m

\* ------------------------------------------- scale.rs: RelaySampler
\* choose_weighted refuses a negative or NaN weight (InvalidWeight) and a
\* total of zero (AllWeightsZero / NoItem); otherwise it may return every
\* relay of positive weight.
InvalidWeight(w) == w[2] = 0 \/ w[1] < 0
SamplerFails(rel, flag_weights) ==
    \/ \E k \in DOMAIN rel : InvalidWeight(get_relay_weight(flag_weights, rel[k]))
    \/ \A k \in DOMAIN rel : get_relay_weight(flag_weights, rel[k])[1] = 0
Samples(rel, flag_weights) ==
    {k \in DOMAIN rel : get_relay_weight(flag_weights, rel[k])[1] > 0}

\* rng.gen_bool(p) for p in [0, 1]; for the NaN of 0.0 / 0.0 the Bernoulli
\* constructor of the rand release in use either fails (a panic) or
\* yields a distribution that is never true.
IsNaN(p) == p[2] = 0
gen_bool(p) == IF p[2] = 0 \/ p[1] = 0 THEN {FALSE}
               ELSE IF p[1] = p[2] THEN {TRUE} ELSE BOOLEAN

\* One pass of the generation loop of scale_horizontally: the relay it
\* creates ("plain": family settled, "needs": awaits a new family), or
\* "continue" (nothing created), or "panic".
Drawn(kind, relay, family) == [kind |-> kind, relay |-> [relay EXCEPT !.family = family]]

LoopDraws(rel, flag_weights, p_family, prob_family_new, p_sameas) ==
    UNION { LET chosen_relay == rel[c]
                with_family == {k \in DOMAIN rel : rel[k].family # 0}
                only_from_as == {k \in with_family : rel[k].asn = chosen_relay.asn}
                not_from_as == {k \in with_family : rel[k].asn # chosen_relay.asn}
            IN IF ~in_family THEN {Drawn("plain", chosen_relay, 0)}
               ELSE IF new_family THEN {Drawn("needs", chosen_relay, chosen_relay.family)}
               ELSE IF chosen_relay.family # 0 /\ same_as
                    THEN {Drawn("plain", chosen_relay, chosen_relay.family)}
               ELSE IF same_as
                    THEN IF only_from_as = {} THEN {Drawn("continue", chosen_relay, 0)}
                         ELSE {Drawn("plain", chosen_relay, rel[k].family) : k \in only_from_as}
               ELSE IF not_from_as = {} THEN {Drawn("panic", chosen_relay, 0)}
                    ELSE {Drawn("plain", chosen_relay, rel[k].family) : k \in not_from_as}
          : <<in_family, new_family, same_as, c>> \in
                gen_bool(p_family) \X gen_bool(prob_family_new) \X gen_bool(p_sameas)
                    \X Samples(rel, flag_weights) }

\* ------------------------------------------- scale.rs: scaling flag groups
from_flag_factors_by_bandwidth(rel, middle_factor, exit_factor, guard_factor) ==
    LET bandwidth(e, g) ==
            SumOver({k \in DOMAIN rel : HasFlag(rel[k], "Exit") = e /\ HasFlag(rel[k], "Guard") = g},
                    [k \in DOMAIN rel |-> rel[k].bandwidth_weight])
    IN from_flag_factors_by_value(middle_factor, exit_factor, guard_factor,
                                  bandwidth(TRUE, FALSE), bandwidth(FALSE, TRUE),
                                  bandwidth(TRUE, TRUE))

\* A weight an f32 holds exactly: a quotient whose denominator divides a
\* small power of two times its numerator (or a division by 0.0).
MaxShift == 4
Representable(w) ==
    IF w[2] = 0 THEN TRUE ELSE {j \in 0..MaxShift : (w[1] * 2^j) % w[2] = 0} # {}

\* ((bandwidth_weight as f32) * weight) as u64: NaN and every negative
\* product become 0 (a weight over 0.0 only ever meets a bandwidth of 0).
ScaledByWeight(bw, w) ==
    IF w[2] = 0 \/ w[1] < 0 THEN 0 ELSE TruncDiv(bw * w[1], w[2])

\* <<middle_scale, exit_scale, guard_scale>>
FlagScales == { <<<<1, 1>>, <<2, 1>>, <<1, 1>>>>, <<<<1, 2>>, <<1, 1>>, <<2, 1>>>>,
                <<<<2, 1>>, <<1, 2>>, <<1, 2>>>> }

\* scale_flag_groups_vertically(consensus, scales[1], scales[2], scales[3])
scale_flag_groups_vertically(scales) ==
    LET flag_weights == from_flag_factors_by_bandwidth(relays, scales[1], scales[2],
                                                       scales[3])
        scaled == [k \in DOMAIN relays |->
                    [relays[k] EXCEPT !.bandwidth_weight =
                        ScaledByWeight(@, get_relay_weight(flag_weights, relays[k]))]]
        op == [Called("scale_flag_groups_vertically", "ok") EXCEPT
                  !.scales = scales,
                  !.before = [k \in DOMAIN relays |-> relays[k].bandwidth_weight]]
    IN /\ \A k \in DOMAIN relays :
              Representable(get_relay_weight(flag_weights, relays[k]))
       /\ \A k \in DOMAIN scaled : scaled[k].bandwidth_weight <= MaxBw
       /\ Finish(op, [relays |-> scaled, families |-> families, famobj |-> famobj])

ScaleFlagGroupsVertically ==
    /\ phase = "loaded"
    /\ ops < MaxOps
    /\ \E scales \in FlagScales : scale_flag_groups_vertically(scales)

\* ------------------------------------------- scale.rs: new families
\* The size lists the sampling loop can end with: every list of sizes of the
\* histogram that adds up to the number of relays awaiting a family (an
\* overshoot starts the sampling over).
RECURSIVE Compositions(_, _)
Compositions(remaining, sizes) ==
    IF remaining = 0 THEN {<<>>}
    ELSE UNION { {<<size>> \o rest : rest \in Compositions(remaining - size, sizes)}
                 : size \in {z \in sizes : z <= remaining} }

\* Vec::swap_remove
swap_remove(vec, position) ==
    [i \in 1..(Len(vec) - 1) |-> IF i = position THEN vec[Len(vec)] ELSE vec[i]]

\* The while loop filling one family: <<members, relays still waiting>>.
RECURSIVE GrowFamily(_, _, _, _)
GrowFamily(current_members, waiting, family_size, p_sameas) ==
    IF Len(current_members) >= family_size THEN {<<current_members, waiting>>}
    ELSE UNION {
        LET ref_member == current_members[r]
            restricted == {i \in DOMAIN waiting :
                              (waiting[i].asn = ref_member.asn) = same_as}
            positions == IF restricted = {} THEN DOMAIN waiting ELSE restricted
        IN UNION { GrowFamily(Append(current_members, waiting[position]),
                              swap_remove(waiting, position), family_size, p_sameas)
                   : position \in positions }
        : <<r, same_as>> \in (DOMAIN current_members) \X gen_bool(p_sameas) }

\* The for loop over the sampled sizes: the member lists of the new families.
RECURSIVE BuildFamilies(_, _, _)
BuildFamilies(waiting, new_family_sizes, p_sameas) ==
    IF new_family_sizes = <<>> THEN {<<>>}
    ELSE UNION {
        {<<grown[1]>> \o more :
            more \in BuildFamilies(grown[2], Tail(new_family_sizes), p_sameas)}
        : grown \in GrowFamily(<<waiting[Len(waiting)]>>, SubSeq(waiting, 1, Len(waiting) - 1),
                               new_family_sizes[1], p_sameas) }

\* ------------------------------------------- scale.rs: Customizer
\* FingerprintGenerator: the state starts at zero in every Customizer and
\* get_fingerprint increments it before returning it.
FingerprintGenerator_new == 0
get_fingerprint(state) == state + 1

\* customize_relay over a list, the generator being in the given state.
customize(list, state) ==
    [i \in DOMAIN list |-> [list[i] EXCEPT !.fingerprint =
        get_fingerprint(state + i - 1)]]

\* ------------------------------------------- scale.rs: scale_horizontally
\* (x as f32 * scale).round() as u32, scale = <<numerator, denominator>>
RoundScaled(x, scale) == (2 * x * scale[1] + scale[2]) \div (2 * scale[2])

\* An integration that leaves the deferred relays the family reference they
\* were cloned with.
Integrate_keeping_old_reference(rel, fams, with_family, groups) ==
    LET base == MaxId(fams, rel)
        grouped == groups
        RECURSIVE Flat(_)
        Flat(j) == IF j > Len(grouped) THEN <<>> ELSE grouped[j] \o Flat(j + 1)
        new_relays_with_family == with_family \o Flat(1)
        fps == {new_relays_with_family[i].fingerprint : i \in DOMAIN new_relays_with_family}
        inserted == [fp \in fps |-> new_relays_with_family[
                        Max({i \in DOMAIN new_relays_with_family :
                                new_relays_with_family[i].fingerprint = fp})]]
        deferred == {Flat(1)[i].fingerprint : i \in DOMAIN Flat(1)}
    IN Minting(Done(Compact(recompute_families(inserted @@ rel, base + Len(groups)))), fps,
               deferred)

\* The last part of scale_horizontally before its tail: with_family and groups
\* (the member lists of the new families) are inserted under their
\* fingerprints, a later relay replacing an earlier one of the same key,
\* and the families are recomputed.
\* deferred: the fingerprints of the relays of the needs-family bucket.
Integrate(rel, fams, with_family, groups) ==
    LET base == MaxId(fams, rel)
        grouped == [j \in DOMAIN groups |->
                      [m \in DOMAIN groups[j] |-> [groups[j][m] EXCEPT !.family = base + j]]]
        RECURSIVE Flat(_)
        Flat(j) == IF j > Len(grouped) THEN <<>> ELSE grouped[j] \o Flat(j + 1)
        new_relays_with_family == with_family \o Flat(1)
        fps == {new_relays_with_family[i].fingerprint : i \in DOMAIN new_relays_with_family}
        inserted == [fp \in fps |-> new_relays_with_family[
                        Max({i \in DOMAIN new_relays_with_family :
                                new_relays_with_family[i].fingerprint = fp})]]
        deferred == {Flat(1)[i].fingerprint : i \in DOMAIN Flat(1)}
    IN Minting(Done(Compact(recompute_families(inserted @@ rel, base + Len(groups)))), fps,
               deferred)

\* What a created list of draws leads to.
Built(rel, fams, sizes, p_sameas, draws) ==
    LET plain == SelectSeq(draws, LAMBDA d : d.kind = "plain")
        needs == SelectSeq(draws, LAMBDA d : d.kind = "needs")
        new_relays_with_family ==
            customize([i \in DOMAIN plain |-> plain[i].relay], FingerprintGenerator_new)
        new_relays_needing_family ==
            customize([i \in DOMAIN needs |-> needs[i].relay],
                      FingerprintGenerator_new + Len(plain))
        family_sizes_ == {sizes[i][1] : i \in DOMAIN sizes}
    IN IF Len(needs) = 0 THEN {Integrate(rel, fams, new_relays_with_family, <<>>)}
       ELSE IF family_sizes_ = {} THEN {Minting(Failed("panic"), {}, {})}
       ELSE IF Compositions(Len(needs), family_sizes_) = {}
            THEN {Minting(Failed("diverge"), {}, {})}
       ELSE UNION { {Integrate(rel, fams, new_relays_with_family, groups) :
                        groups \in BuildFamilies(new_relays_needing_family,
                                                 new_family_sizes, p_sameas)}
                    : new_family_sizes \in Compositions(Len(needs), family_sizes_) }

\* A validation that accepts every prob_family_new.
InvalidArguments_ignoring_probability(arguments) ==
    \/ arguments[1][1] < arguments[1][2]
    \/ arguments[2][1] < 0
    \/ arguments[3][1] < 0

\* The checks at the head of scale_horizontally: scale < 1.0, exit_factor <
\* 0.0, guard_factor < 0.0, prob_family_new < 0.0 || prob_family_new > 1.0.
InvalidArguments(arguments) ==
    \/ arguments[1][1] < arguments[1][2]
    \/ arguments[2][1] < 0
    \/ arguments[3][1] < 0
    \/ arguments[4][1] < 0 \/ arguments[4][1] > arguments[4][2]

\* Every outcome of scale_horizontally before its tail.
\* arguments =<<scale, exit_factor, guard_factor, prob_family_new>>
scale_horizontally(rel, fams, sizes, p_family, p_sameas, arguments, nan_panics) ==
    LET scale == arguments[1]
        exit_factor == arguments[2]
        guard_factor == arguments[3]
        prob_family_new == arguments[4]
        num_relays_before == Cardinality(DOMAIN rel)
        num_new_relays == RoundScaled(num_relays_before, scale) - num_relays_before
        flag_weights == from_flag_factors_by_number(rel, <<1, 1>>, exit_factor, guard_factor)
        draws == LoopDraws(rel, flag_weights, p_family, prob_family_new, p_sameas)
        created == {d \in draws : d.kind \in {"plain", "needs"}}
    IN IF InvalidArguments(arguments)
       THEN {Minting(Failed("panic"), {}, {})}
       ELSE IF num_new_relays = 0 THEN {Integrate(rel, fams, <<>>, <<>>)}
       ELSE IF nan_panics /\ (IsNaN(p_family) \/ IsNaN(p_sameas))
            THEN {Minting(Failed("panic"), {}, {})}
       ELSE IF SamplerFails(rel, flag_weights) THEN {Minting(Failed("panic"), {}, {})}
       ELSE (IF \E d \in draws : d.kind = "panic" THEN {Minting(Failed("panic"), {}, {})} ELSE {})
            \cup (IF \A d \in draws : d.kind = "continue"
                  THEN {Minting(Failed("diverge"), {}, {})} ELSE {})
            \cup UNION { Built(rel, fams, sizes, p_sameas, list)
                         : list \in [1..num_new_relays -> created] }

\* The arguments tried: <<scale, exit_factor, guard_factor, prob_family_new>>,
\* the first three rejected by the validation.
HorizontalArguments ==
    { <<<<1, 2>>, <<1, 1>>, <<1, 1>>, <<1, 2>>>>,
      <<<<3, 2>>, <<0 - 1, 1>>, <<1, 1>>, <<1, 2>>>>,
      <<<<3, 2>>, <<1, 1>>, <<0 - 1, 1>>, <<1, 2>>>>,
      <<<<3, 2>>, <<1, 1>>, <<1, 1>>, <<0 - 1, 2>>>>,
      <<<<3, 2>>, <<1, 1>>, <<1, 1>>, <<2, 1>>>> }
    \cup { <<scale, factors[1], factors[2], <<1, 2>>>> :
            scale \in { <<1, 1>>, <<3, 2>>, <<2, 1>> },
            factors \in { <<<<1, 1>>, <<1, 1>>>>, <<<<0, 1>>, <<1, 1>>>> } }

ScaleHorizontally ==
    /\ phase = "loaded"
    /\ ops < MaxOps
    /\ \E arguments \in HorizontalArguments, nan_panics \in BOOLEAN :
        /\ RoundScaled(Cardinality(DOMAIN relays), arguments[1]) <= MaxRelays
        /\ nan_panics => IsNaN(prob_family) \/ IsNaN(prob_family_sameas)
        /\ \E outcome \in scale_horizontally(relays, families, family_sizes, prob_family,
                              prob_family_sameas, arguments, nan_panics) :
              LET op == [Called("scale_horizontally", "ok") EXCEPT
                            !.scale = arguments[1], !.minted = outcome.minted,
                            !.existing = DOMAIN relays, !.input = arguments,
                            !.deferred = outcome.deferred, !.before = family_sizes]
              IN IF outcome.status # "ok"
                 THEN /\ phase' = (IF outcome.status = "panic" THEN "panicked" ELSE "diverged")
                      /\ call' = [op EXCEPT !.result = outcome.status]
                      /\ UNCHANGED <<consensus, ops>>
                 ELSE Finish(op, outcome)

\* ------------------------------------------- the weight casework on its own
\* Class sums G, M, E, D of 1..MaxSum each, handed to the casework of
\* recompute_bw_weights.
MaxSum == 6

InitW ==
    /\ \E G \in 1..MaxSum, M \in 1..MaxSum, E \in 1..MaxSum, D \in 1..MaxSum :
          call = [NoCall EXCEPT !.op = "class_sums", !.input = <<G, M, E, D>>]
    /\ phase = "sums"
    /\ relays = <<>>
    /\ families = <<>>
    /\ famobj = <<>>
    /\ weights = Published(W7(0, 0, 0, 0, 0, 0, 0))
    /\ prob_family = <<0, 0>>
    /\ prob_family_sameas = <<0, 0>>
    /\ family_sizes = <<>>
    /\ ops = 0

SolveW ==
    /\ phase = "sums"
    /\ LET G == call.input[1]
           M == call.input[2]
           E == call.input[3]
           D == call.input[4]
       IN IF SolvePanics(G, M, E, D)
          THEN /\ phase' = "panicked"
               /\ call' = [call EXCEPT !.op = "recompute_bw_weights", !.result = "panic"]
               /\ UNCHANGED weights
          ELSE /\ phase' = "solved"
               /\ call' = [call EXCEPT !.op = "recompute_bw_weights"]
               /\ weights' = Published(SolveWeights(G, M, E, D))
    /\ UNCHANGED <<relays, families, famobj, prob_family, prob_family_sameas,
                   family_sizes, ops>>

NextW == SolveW

SpecW == InitW /\ [][NextW]_vars

\* ------------------------------------------- the family assignment on its own
\* Every directed declaration mapping over MaxFam consensus fingerprints,
\* handed to clean_families and make_cliques as combine_documents does.
MaxFam == 3
FamFP == ConsFP(MaxFam)

InitF ==
    /\ \E decl \in [FamFP -> SUBSET FamFP] :
          call = [NoCall EXCEPT !.op = "family_relations",
                                !.input = [fp \in FamFP |-> SortedSeq(decl[fp])]]
    /\ phase = "declared"
    /\ relays = <<>>
    /\ families = <<>>
    /\ famobj = <<>>
    /\ weights = Published(W7(0, 0, 0, 0, 0, 0, 0))
    /\ prob_family = <<0, 0>>
    /\ prob_family_sameas = <<0, 0>>
    /\ family_sizes = <<>>
    /\ ops = 0

\* relays keeps, for every fingerprint, the family value assigned to it,
\* call.found the mapping clean_families left.
AssignF ==
    /\ phase = "declared"
    /\ LET cliques == make_cliques(clean_families(call.input))
       IN /\ relays' = [fp \in DOMAIN cliques.result |->
                          [fingerprint |-> fp, family |-> cliques.result[fp]]]
          /\ families' = cliques.families
          /\ famobj' = cliques.famobj
    /\ phase' = "assigned"
    /\ call' = [call EXCEPT !.op = "make_cliques", !.found = clean_families(call.input)]
    /\ UNCHANGED <<weights, prob_family, prob_family_sameas, family_sizes, ops>>

NextF == AssignF

SpecF == InitF /\ [][NextF]_vars

\* ------------------------------------------- parser/asn.rs: IpRange
\* An AS with the single range ip/masklen, as AsnDb::new reads it from a
\* record of the database, and a sample_ip from it.  An address is the u32
\* of its octets.
MaxIndex == 8
MaskLens == 0..33
IpMenu == {0, 167772160}

\* IpRange::new panics unless 1 <= masklen <= 32.
IpRange_new_panics(masklen) == masklen < 1 \/ masklen > 32

\* IpRange::len: (32u32 - masklen).checked_pow(2).unwrap()
IpRange_len(masklen) == (32 - masklen) * (32 - masklen)

\* IpRange::index(i), for i < len
IpRange_index(ip, i) == ip + i

InitR ==
    /\ \E ip \in IpMenu, masklen \in MaskLens :
          call = [NoCall EXCEPT !.op = "record", !.input = <<ip, masklen>>]
    /\ phase = "record"
    /\ relays = <<>>
    /\ families = <<>>
    /\ famobj = <<>>
    /\ weights = Published(W7(0, 0, 0, 0, 0, 0, 0))
    /\ prob_family = <<0, 0>>
    /\ prob_family_sameas = <<0, 0>>
    /\ family_sizes = <<>>
    /\ ops = 0

NewR ==
    /\ phase = "record"
    /\ IF IpRange_new_panics(call.input[2])
       THEN /\ phase' = "panicked"
            /\ call' = [call EXCEPT !.op = "IpRange::new", !.result = "panic"]
       ELSE /\ phase' = "range"
            /\ call' = [call EXCEPT !.op = "IpRange::new"]
    /\ UNCHANGED <<consensus, ops>>

\* Asn::sample_ip: the range is drawn with its len() as weight (a sum of 0
\* is an error that is unwrapped), then an index below len() is drawn.
SampleR ==
    /\ phase = "range"
    /\ LET ip == call.input[1]
           masklen == call.input[2]
           len == IpRange_len(masklen)
       IN IF len = 0
          THEN /\ phase' = "panicked"
               /\ call' = [call EXCEPT !.op = "Asn::sample_ip", !.result = "panic",
                                       !.input = <<ip, masklen, len>>]
          ELSE \E i \in 0..MaxIndex :
                 /\ i < len
                 /\ phase' = "sampled"
                 /\ call' = [call EXCEPT !.op = "Asn::sample_ip",
                                         !.input = <<ip, masklen, len, IpRange_index(ip, i)>>]
    /\ UNCHANGED <<consensus, ops>>

NextR == NewR \/ SampleR

SpecR == InitR /\ [][NextR]_vars

\* ------------------------------------------- the flag groups on their own
\* A loaded consensus of relays without families: two with Exit only, one
\* with Guard only, one with both flags, one with neither, of bandwidth
\* weights 1..MaxClassBw, and scale_flag_groups_vertically with every
\* combination of the factors of FactorMenu applied to it.
MaxClassBw == 3
FactorMenu == { <<0, 1>>, <<1, 2>>, <<1, 1>>, <<2, 1>> }
ClassRelay(fp, flags, bw) ==
    [fingerprint |-> fp, flags |-> flags, asn |-> 1, bandwidth_weight |-> bw,
     family |-> 0, bw_observed_was_zero |-> FALSE]

InitV ==
    /\ \E e \in 1..MaxClassBw, g \in 1..MaxClassBw, d \in 1..MaxClassBw :
          relays = (101 :> ClassRelay(101, {"Exit"}, e))
                      @@ (102 :> ClassRelay(102, {"Guard"}, g))
                      @@ (103 :> ClassRelay(103, {"Exit", "Guard"}, d))
                      @@ (104 :> ClassRelay(104, {}, 1))
                      @@ (105 :> ClassRelay(105, {"Exit"}, 1))
    /\ phase = "loaded"
    /\ families = <<>>
    /\ famobj = <<>>
    /\ weights = Published(W7(0, 0, 0, 0, 0, 0, 0))
    /\ prob_family = <<0, 5>>
    /\ prob_family_sameas = <<0, 0>>
    /\ family_sizes = <<>>
    /\ call = Called("combine_documents", "ok")
    /\ ops = 0

ScaleFlagGroupsV ==
    /\ phase = "loaded"
    /\ ops < MaxOps
    /\ \E exit_scale \in FactorMenu, guard_scale \in FactorMenu :
          scale_flag_groups_vertically(<<<<1, 1>>, exit_scale, guard_scale>>)

NextV == ScaleFlagGroupsV

SpecV == InitV /\ [][NextV]_vars

\* ------------------------------------------- output.rs: save_to
\* A time is the number of seconds since the epoch; the date of a time is
\* its day number, which stands for what %Y-%m-%d prints.
date(t) == t \div 86400
and_hms(day, hour, minute, second) == day * 86400 + hour * 3600 + minute * 60 + second
Duration_hours(n) == n * 3600

\* format("%Y-%m-%d %H:%M:%S")
format(t) ==
    [date |-> t \div 86400, hour |-> (t % 86400) \div 3600, minute |-> (t % 3600) \div 60,
     second |-> t % 60]

\* A header line that takes the hour off valid_after itself.
valid_after_line_of_the_hour(valid_after) == format(valid_after - Duration_hours(1))

\* The time of the "valid-after" line of the consensus file.
valid_after_line(valid_after) ==
    format(and_hms(date(valid_after), 0, 0, 0) - Duration_hours(1))

\* The valid_after of the consensus to save: a day 1..MaxDay, every hour of
\* the day, and some seconds into the hour.
MaxDay == 2
SecondsIntoHour == {0, 1, 1800, 3599}

InitO ==
    /\ \E day \in 1..MaxDay, hour \in 0..23, into \in SecondsIntoHour :
          call = [NoCall EXCEPT !.op = "consensus",
                                !.input = <<and_hms(day, hour, 0, 0) + into>>]
    /\ phase = "consensus"
    /\ relays = <<>>
    /\ families = <<>>
    /\ famobj = <<>>
    /\ weights = Published(W7(0, 0, 0, 0, 0, 0, 0))
    /\ prob_family = <<0, 0>>
    /\ prob_family_sameas = <<0, 0>>
    /\ family_sizes = <<>>
    /\ ops = 0

SaveTo ==
    /\ phase = "consensus"
    /\ phase' = "saved"
    /\ call' = [call EXCEPT !.op = "save_to", !.found = valid_after_line(call.input[1])]
    /\ UNCHANGED <<consensus, ops>>

NextO == SaveTo

SpecO == InitO /\ [][NextO]_vars

Next ==
    \/ Ingest
    \/ IngestMissing
    \/ VerifyWeights
    \/ RemoveRelaysBy
    \/ ScaleVerticallyByBandwidthRank
    \/ ScaleFlagGroupsVertically
    \/ ScaleHorizontally

Spec == Init /\ [][Next]_vars

\* ======================================================== properties
Mutating == {"remove_relays_by", "scale_horizontally",
             "scale_vertically_by_bandwidth_rank", "scale_flag_groups_vertically"}
Completed(op) == call.op = op /\ call.result = "ok"
Members(id) == IF id = 0 THEN {} ELSE Range(famobj[id])

\* C1: a completed scale_horizontally with scale s >= 1 on a consensus of N
\* relays leaves exactly round(N * s) entries in the relay mapping.
C1_ExactRelayCount ==
    Completed("scale_horizontally") =>
        Cardinality(DOMAIN relays) = RoundScaled(Cardinality(call.existing), call.scale)

\* C2: the fingerprints one scale_horizontally call mints are pairwise
\* distinct (as many as relays created) and none is a key the consensus held
\* before the call.
C2_FreshFingerprints ==
    Completed("scale_horizontally") =>
        /\ call.minted \cap call.existing = {}
        /\ Cardinality(call.minted) =
              RoundScaled(Cardinality(call.existing), call.scale) - Cardinality(call.existing)

\* C3: in every state from combine_documents on, every entry of the relay
\* mapping is keyed by its own fingerprint.
C3_KeyedByOwnFingerprint ==
    phase \in {"loaded", "panicked", "diverged"} =>
        \A fp \in DOMAIN relays : relays[fp].fingerprint = fp

FamiliesSettled ==
    /\ phase = "loaded"
    /\ call.result = "ok"
    /\ call.op \in {"combine_documents", "remove_relays_by", "scale_horizontally"}

\* C4: after combine_documents and each completed remove_relays_by or
\* scale_horizontally, every member of every family is a relay referring to
\* that very family, and every relay with a family has its own fingerprint
\* among that family's members.
C4_MembershipAgrees ==
    FamiliesSettled =>
        /\ \A i \in DOMAIN families : \A m \in Members(families[i]) :
              m \in DOMAIN relays /\ relays[m].family = families[i]
        /\ \A k \in DOMAIN relays :
              relays[k].family # 0 => relays[k].fingerprint \in Members(relays[k].family)

\* C5: after combine_documents and each completed remove_relays_by or
\* scale_horizontally, every family a relay refers to occurs exactly once in
\* consensus.families and every element of consensus.families is referred
\* to by some relay.
C5_FamiliesListedOnce ==
    FamiliesSettled =>
        /\ \A k \in DOMAIN relays : relays[k].family # 0 =>
              Cardinality({i \in DOMAIN families : families[i] = relays[k].family}) = 1
        /\ \A i \in DOMAIN families :
              /\ \E k \in DOMAIN relays : relays[k].family = families[i]
              /\ \A j \in DOMAIN families : families[j] = families[i] => j = i

C5_NewFamilyListed ==
    /\ Completed("scale_horizontally")
    /\ call.minted # {}
    /\ Len(families) >= 2
    /\ \E k \in call.minted \ call.existing : relays[k].family # 0

\* C6: in every state from combine_documents on, every family has at least
\* two members, no relay refers to a family whose only member is itself, and
\* a family is referred to by at least two relays (a relay left alone in
\* its family has none).
C6_NoSingletonFamilies ==
    phase \in {"loaded", "panicked", "diverged"} =>
        /\ \A i \in DOMAIN families : Cardinality(Members(families[i])) >= 2
        /\ \A k \in DOMAIN relays : relays[k].family # 0 =>
              /\ Members(relays[k].family) # {relays[k].fingerprint}
              /\ Members(relays[k].family) # {k}
              /\ Cardinality(Members(relays[k].family)) >= 2
              /\ Cardinality({j \in DOMAIN relays : relays[j].family = relays[k].family}) >= 2

C6_FamilyCollapsed ==
    /\ Completed("remove_relays_by")
    /\ \E k \in DOMAIN relays : call.before[k] # 0 /\ relays[k].family = 0

\* C7: for every directed declaration mapping, the assignment of
\* clean_families followed by make_cliques is symmetric: u is a member of
\* v's family exactly when v is a member of u's, and then both have the
\* identical family value.
C7_SymmetricAssignment ==
    phase = "assigned" =>
        \A u \in DOMAIN relays : \A v \in DOMAIN relays :
            /\ (u \in Members(relays[v].family)) <=> (v \in Members(relays[u].family))
            /\ u \in Members(relays[v].family) => relays[u].family = relays[v].family

\* A family of three was assigned although a declaration was one-sided.
C7_OneSidedDeclarationSeen ==
    /\ phase = "assigned"
    /\ \E i \in DOMAIN families : Cardinality(Members(families[i])) = 3
    /\ \E u \in DOMAIN call.input : \E v \in Range(call.input[u]) :
          u # v /\ u \notin Range(call.input[v])

\* C8: once a mutating operation has completed, the stored weights are the
\* ones recomputed from the current relays, so that verify_weights returns
\* Ok when it is the next call.
C8_VerifyAfterMutation ==
    /\ (phase = "loaded" /\ call.op \in Mutating /\ call.result = "ok") =>
          ~BwPanics(relays) /\ verify_weights(weights, relays) = "ok"
    /\ (call.op = "verify_weights" /\ call.after \in Mutating) => call.result = "ok"

C8_VerifiedAfterScaling ==
    /\ call.op = "verify_weights"
    /\ call.after = "scale_flag_groups_vertically"
    /\ call.result = "ok"
    /\ weights.Wgg # weightscale

Within(a, b, tolerance) == a - b <= tolerance /\ b - a <= tolerance

\* C9: for all class sums G, M, E, D >= 1 the published weights satisfy
\* Wed+Wmd+Wgd = 10000, Wmg+Wgg = 10000 and Wme+Wee = 10000, each within
\* 10, and Wgg, Wgd, Wmg, Wme, Wmd, Wee, Wed lie in 0..10000.
C9_PublishedWeightsConsistent ==
    phase = "solved" =>
        /\ Within(weights.Wed + weights.Wmd + weights.Wgd, 10000, 10)
        /\ Within(weights.Wmg + weights.Wgg, 10000, 10)
        /\ Within(weights.Wme + weights.Wee, 10000, 10)
        /\ \A name \in {"Wgg", "Wgd", "Wmg", "Wme", "Wmd", "Wee", "Wed"} :
              weights[name] >= 0 /\ weights[name] <= 10000

\* Published weights of a tuple with M > 1 that passed through Case 2b.
C9_Case2bPublished ==
    /\ phase = "solved"
    /\ call.input[2] > 1
    /\ CaseName(call.input[1], call.input[2], call.input[3], call.input[4]) = "2b"
    /\ weights.Wed + weights.Wmd + weights.Wgd # 10000

\* C10: scale_vertically_by_bandwidth_rank with k factors on N relays,
\* 1 <= k <= N, completes, and for an ascending order of the old weights the
\* relay at rank i (0-based) has the truncation of old * scales[min(i div g,
\* k - 1)], g = N div k, as its new weight.
C10_RankScaling ==
    (/\ call.op = "scale_vertically_by_bandwidth_rank"
     /\ Len(call.scales) >= 1
     /\ Len(call.scales) <= Cardinality(DOMAIN call.before)) =>
        /\ call.result = "ok"
        /\ LET N == Cardinality(DOMAIN call.before)
               k == Len(call.scales)
               g == N \div k
               old == [fp \in DOMAIN call.before |-> [bandwidth_weight |-> call.before[fp]]]
           IN \E order \in SortedOrders(old) :
                \A i \in 0..(N - 1) :
                    LET factor == call.scales[Min({i \div g, k - 1}) + 1]
                    IN relays[order[i + 1]].bandwidth_weight =
                          TruncDiv(call.before[order[i + 1]] * factor[1], factor[2])

WithoutFamily(relay) == [relay EXCEPT !.family = 0]

IdleRemoved == Completed("remove_relays_by") /\ call.idle

\* C11: after a completed remove_relays_by(bw_observed_was_zero) no remaining
\* relay has bw_observed_was_zero, every remaining relay was there before
\* with the same attributes apart from its family reference, and
\* verify_weights is Ok; a second such call right after it removes no relay
\* and leaves relays, families, weights and statistics as they were.
C11_IdleRemovalIdempotent ==
    /\ [](IdleRemoved =>
            /\ \A k \in DOMAIN relays :
                  /\ ~relays[k].bw_observed_was_zero
                  /\ k \in DOMAIN call.found
                  /\ WithoutFamily(relays[k]) = WithoutFamily(call.found[k])
            /\ verify_weights(weights, relays) = "ok")
    /\ [][(IdleRemoved /\ call'.op = "remove_relays_by" /\ call'.idle) =>
            /\ call'.result = "ok"
            /\ DOMAIN relays' = DOMAIN relays
            /\ consensus' = consensus]_vars

\* A second idle removal that followed one which had removed the idle relay
\* of a consensus of profile 2.
C11_SecondIdleRemoval ==
    /\ IdleRemoved
    /\ call.after = "remove_idle_relays"
    /\ call.existing = DOMAIN relays
    /\ \E k \in DOMAIN relays : relays[k].bandwidth_weight = 4 /\ relays[k].family # 0

\* What the claim calls invalid arguments of scale_horizontally.
Rejectable(arguments) ==
    \/ arguments[1][1] < arguments[1][2]
    \/ arguments[2][1] < 0
    \/ arguments[3][1] < 0
    \/ arguments[4][1] < 0
    \/ arguments[4][1] > arguments[4][2]

\* C12: a scale_horizontally call with scale < 1, a negative exit_factor or
\* guard_factor, or prob_family_new outside [0, 1] fails, and the relays,
\* families, weights and statistics are those from before the call.
C12_InvalidArgumentsRejected ==
    [][(call'.op = "scale_horizontally" /\ Rejectable(call'.input)) =>
          /\ call'.result = "panic"
          /\ consensus' = consensus]_vars

\* A call rejected for its prob_family_new alone, on a consensus with a family.
C12_ProbabilityRejected ==
    /\ call.op = "scale_horizontally"
    /\ call.result = "panic"
    /\ call.input[4][1] > call.input[4][2]
    /\ call.input[1][1] >= call.input[1][2]
    /\ Len(families) >= 1

\* C13: combine_documents returns MissingDescriptor exactly when a consensus
\* entry has no descriptor with its digest among the descriptors; otherwise
\* it succeeds and the relay mapping has one relay per consensus entry.
C13_MissingDescriptorExactly ==
    call.op = "combine_documents" =>
        /\ (call.result = "err") <=> (call.input[2] # {})
        /\ call.input[2] = {} =>
              /\ call.result = "ok"
              /\ Cardinality(DOMAIN relays) = call.input[1]

\* x = 2^k, by halving (2^31 is beyond the integers of the checker).
RECURSIVE IsTwoToThe(_, _)
IsTwoToThe(x, k) == IF k = 0 THEN x = 1
                    ELSE x > 0 /\ x % 2 = 0 /\ IsTwoToThe(x \div 2, k - 1)

\* C15: a range of mask length 1..32 reports 2^(32 - mask) as its
\* cardinality.
C15_RangeCardinality ==
    (call.op = "Asn::sample_ip" /\ call.input[2] \in 1..32) =>
        IsTwoToThe(call.input[3], 32 - call.input[2])

\* C16: clean_families keeps the edge u -> v exactly when u # v and the
\* mapping it was given holds both u -> v and v -> u; it keeps the keys and
\* adds no edge.
C16_MirroredEdgesKept ==
    phase = "assigned" =>
        /\ DOMAIN call.found = DOMAIN call.input
        /\ \A u \in DOMAIN call.input : \A v \in DOMAIN call.input \cup Range(call.found[u]) :
              (v \in Range(call.found[u])) <=>
                  (u # v /\ v \in Range(call.input[u]) /\ u \in Range(call.input[v]))

\* A mapping with a self-declaration, a one-sided edge whose source keeps
\* another edge, and a mirrored edge.
C16_EdgesOfEveryKind ==
    /\ phase = "assigned"
    /\ \E u \in DOMAIN call.input : u \in Range(call.input[u])
    /\ \E u \in DOMAIN call.input : \E v \in Range(call.input[u]) :
          /\ u # v
          /\ u \notin Range(call.input[v])
          /\ call.found[u] # <<>>
          /\ v \notin Range(call.found[u])

\* The vertices connected to those of S in the adjacency mapping adj.
RECURSIVE Connected(_, _)
Connected(adj, S) ==
    LET next == S \cup UNION {Range(adj[x]) : x \in S}
    IN IF next = S THEN S ELSE Connected(adj, next)

Component(u) == Connected(call.found, {u})

Retained == [k \in DOMAIN relays |-> call.found[k]]
OldFamilies == {call.found[k].family : k \in DOMAIN call.found} \ {0}
Group(k) == {j \in DOMAIN relays : call.found[j].family = call.found[k].family}

\* C18: recompute_families (as remove_relays_by runs it on the relays it
\* retained) groups the relays by the family value they referred to: two
\* relays end with the same family exactly when they referred to the same
\* one and their group has two or more relays; a relay of a smaller group
\* and a relay without family end without one; the family of a group is a
\* newly created value whose members are the keys of the group, each once;
\* no family value that existed is among the new ones.
C18_RegroupedByReference ==
    Completed("remove_relays_by") =>
        LET raw == recompute_families(Retained, Max(OldFamilies \cup {0}))
        IN /\ DOMAIN raw.famobj \cap OldFamilies = {}
           /\ Range(raw.families) \cap OldFamilies = {}
           /\ Compact(raw) = [relays |-> relays, families |-> families, famobj |-> famobj]
           /\ \A k \in DOMAIN relays :
                 /\ call.found[k].family = 0 => relays[k].family = 0
                 /\ (call.found[k].family # 0 /\ Cardinality(Group(k)) < 2)
                        => relays[k].family = 0
                 /\ (call.found[k].family # 0 /\ Cardinality(Group(k)) >= 2) =>
                       /\ relays[k].family # 0
                       /\ Members(relays[k].family) = Group(k)
                       /\ Len(famobj[relays[k].family]) = Cardinality(Group(k))
                 /\ \A j \in DOMAIN relays \ {k} :
                       (relays[k].family # 0 /\ relays[k].family = relays[j].family) <=>
                           /\ call.found[k].family # 0
                           /\ call.found[k].family = call.found[j].family

\* A removal after which a family lives on with fewer members than the
\* family value the relays referred to had.
C18_GroupShrunk ==
    /\ Completed("remove_relays_by")
    /\ \E k \in DOMAIN relays :
          /\ relays[k].family # 0
          /\ Cardinality({j \in DOMAIN call.found :
                             call.found[j].family = call.found[k].family})
                > Cardinality(Group(k))
          /\ Members(relays[k].family) = Group(k)

\* The class the claim gives a relay.
ClaimedClass(relay) ==
    LET guard == "Guard" \in relay.flags
        exit == "Exit" \in relay.flags
        badexit == "BadExit" \in relay.flags
    IN IF guard /\ ~exit THEN "G"
       ELSE IF exit /\ ~guard /\ ~badexit THEN "E"
       ELSE IF exit /\ guard /\ ~badexit THEN "D"
       ELSE "M"

\* C19: the class sums of the solver partition the relays: G, E, D and M
\* are each 1 plus the bandwidth weights of the relays of that class (M:
\* every relay of no other class), so T is 4 plus the bandwidth of all.
C19_ClassSumsPartition ==
    phase = "loaded" =>
        LET bw == [k \in DOMAIN relays |-> relays[k].bandwidth_weight]
        IN /\ \A cls \in {"G", "M", "E", "D"} :
                 ClassSum(relays, cls) =
                     1 + SumOver({k \in DOMAIN relays : ClaimedClass(relays[k]) = cls}, bw)
           /\ ClassSum(relays, "G") + ClassSum(relays, "M") + ClassSum(relays, "E")
                  + ClassSum(relays, "D") = 4 + SumOver(DOMAIN relays, bw)

BalancedEg ==
    LET G == call.input[1]
        M == call.input[2]
        E == call.input[3]
        D == call.input[4]
    IN Within(weights.Wgg * G + weights.Wgd * D, weights.Wee * E + weights.Wed * D,
              TruncDiv(margin * (G + M + E + D), 3))

C22_ReferenceRelayAvailable ==
    [][(/\ call'.op = "scale_horizontally"
        /\ phase = "loaded"
        /\ ~InvalidArguments(call'.input)
        /\ RoundScaled(Cardinality(DOMAIN relays), call'.input[1])
               > Cardinality(DOMAIN relays))
       => \A d \in LoopDraws(relays,
                       from_flag_factors_by_number(relays, <<1, 1>>, call'.input[2],
                                                   call'.input[3]),
                       prob_family, call'.input[4], prob_family_sameas) :
              d.kind # "panic"]_vars

\* A completed scale_horizontally after which a created relay is in a
\* family with relays that existed before, none of them of its own AS: its
\* reference relay came from the different-AS choice.
C22_JoinedAcrossAS ==
    /\ Completed("scale_horizontally")
    /\ \E m \in call.minted \cap DOMAIN relays :
          /\ relays[m].family # 0
          /\ Members(relays[m].family) \cap call.existing # {}
          /\ \A k \in Members(relays[m].family) \cap call.existing :
                 relays[k].asn # relays[m].asn

\* The sizes the needs-family bucket of a call can have: 1..n when the loop
\* can defer a relay, all n only when it can defer every relay.
NeedsBuckets(draws, n) ==
    {b \in 1..n : /\ \E d \in draws : d.kind = "needs"
                  /\ b < n => \E d \in draws : d.kind = "plain"}

\* C23: for every non-empty needs-family bucket a call of scale_horizontally
\* can fill and the family_sizes histogram it observes, the restart loop of
\* the size sampling can end: some list of sizes of the histogram adds up
\* to the bucket size (then a pass succeeds with positive probability, so
\* the loop ends with probability 1; otherwise every pass restarts).
C23_SizeSamplingTerminates ==
    [][(/\ call'.op = "scale_horizontally"
        /\ phase = "loaded"
        /\ ~InvalidArguments(call'.input))
       => LET n == RoundScaled(Cardinality(DOMAIN relays), call'.input[1])
                      - Cardinality(DOMAIN relays)
              draws == LoopDraws(relays,
                           from_flag_factors_by_number(relays, <<1, 1>>, call'.input[2],
                                                       call'.input[3]),
                           prob_family, call'.input[4], prob_family_sameas)
          IN \A b \in NeedsBuckets(draws, n) :
                 Compositions(b, {family_sizes[i][1] : i \in DOMAIN family_sizes}) # {}]_vars

\* C24: after a completed scale_horizontally every relay deferred to the
\* needs-family bucket is in the consensus and belongs to exactly one
\* family, whose members were all created by this call and whose size is
\* a size of the family_sizes histogram observed before the call.
C24_DeferredGetNewFamilies ==
    Completed("scale_horizontally") =>
        \A b \in call.deferred :
            /\ b \in DOMAIN relays
            /\ relays[b].family # 0
            /\ Cardinality({i \in DOMAIN families : b \in Members(families[i])}) = 1
            /\ \E i \in DOMAIN families :
                   families[i] = relays[b].family /\ b \in Members(families[i])
            /\ Members(relays[b].family) \subseteq call.minted
            /\ Cardinality(Members(relays[b].family))
                   \in {call.before[i][1] : i \in DOMAIN call.before}

\* A completed scale_horizontally that deferred relays and left their new
\* family next to a family of relays it found.
C24_BucketFilled ==
    /\ Completed("scale_horizontally")
    /\ call.deferred # {}
    /\ \E k \in call.existing \ call.minted : k \in DOMAIN relays /\ relays[k].family # 0

\* The bandwidth total of the relays with a flag and without another one
\* (or with any, for without = "") under the weights bw.
FlagTotal(bw, with, without) ==
    SumOver({k \in DOMAIN relays : HasFlag(relays[k], with) /\ ~HasFlag(relays[k], without)},
            bw)
BwNow == [k \in DOMAIN relays |-> relays[k].bandwidth_weight]

C26_WeightsNonNegative ==
    Completed("scale_flag_groups_vertically") =>
        LET nE == FlagTotal(call.before, "Exit", "Guard")
            nG == FlagTotal(call.before, "Guard", "Exit")
            nD == FlagTotal(call.before, "Exit", "") - nE
            x == call.scales[2]
            g == call.scales[3]
            smaller == IF RLeq(x, g) THEN x ELSE g
            w == from_flag_factors_by_value(call.scales[1], x, g, nE, nG, nD)
        IN (nE > 0 /\ nG > 0 /\ nD > 0) =>
              /\ \A weight \in {w.weight_e, w.weight_g, w.weight_d, w.weight_m} :
                     weight[2] > 0 /\ weight[1] >= 0
              /\ w.weight_d[1] * smaller[2] = smaller[1] * w.weight_d[2]
              /\ \A k \in DOMAIN relays :
                     (HasFlag(relays[k], "Exit") /\ HasFlag(relays[k], "Guard")) =>
                         relays[k].bandwidth_weight
                             = TruncDiv(call.before[k] * smaller[1], smaller[2])

\* A completed scale_flag_groups_vertically on positive totals whose exit
\* factor is the smaller one and halved the relay with both flags, while
\* the Guard relays grew by more than the guard factor.
C26_SmallerFactorShared ==
    /\ Completed("scale_flag_groups_vertically")
    /\ call.scales[2] = <<1, 2>>
    /\ call.scales[3] = <<2, 1>>
    /\ FlagTotal(call.before, "Exit", "Guard") > 0
    /\ \E k \in DOMAIN relays :
          /\ relays[k].flags = {"Exit", "Guard"}
          /\ call.before[k] = 2
          /\ relays[k].bandwidth_weight = 1
    /\ \E k \in DOMAIN relays :
          /\ relays[k].flags = {"Guard"}
          /\ call.before[k] > 0
          /\ relays[k].bandwidth_weight > 2 * call.before[k]

\* x >> k
RECURSIVE ShiftRight(_, _)
ShiftRight(x, k) == IF k = 0 THEN x ELSE ShiftRight(x \div 2, k - 1)

\* C27: every address sample_ip produces for a range (ip, masklen), masklen
\* in 1..32, agrees with ip on the first masklen bits.
C27_SampledInsideRange ==
    (call.op = "Asn::sample_ip" /\ phase = "sampled") =>
        ShiftRight(call.input[4], 32 - call.input[2])
            = ShiftRight(call.input[1], 32 - call.input[2])

\* C28 as stated: the valid-after written to the consensus file is
\* valid_after shifted back by exactly one hour, whatever the hour of day.
C28_ShiftedBackOneHour ==
    phase = "saved" => call.found = format(call.input[1] - 3600)

\* C28 amended: the valid-after written to the consensus file is 23:00:00
\* of the day before the date of valid_after (the midnight that begins the
\* date, shifted back by one hour), whatever the hour of day.
C28_MidnightShiftedBack ==
    phase = "saved" =>
        call.found = [date |-> date(call.input[1]) - 1, hour |-> 23, minute |-> 0,
                      second |-> 0]

\* A saved consensus whose valid_after is one second past noon.
C28_SavedAtNoon ==
    /\ phase = "saved"
    /\ call.op = "save_to"
    /\ call.input[1] % 86400 = 12 * 3600 + 1
    /\ call.found.hour = 23

\* C29: after combine_documents and after every completed mutating
\* operation, family_sizes lists each size of a family once, with the
\* number of families of that many members; the sum of size * count is the
\* number of relays that have a family; prob_family is that number divided
\* by the number of relays.
C29_StatisticsAgree ==
    phase = "loaded" =>
        LET in_family == Cardinality({k \in DOMAIN relays : relays[k].family # 0})
            listed == {family_sizes[i][1] : i \in DOMAIN family_sizes}
            product == [i \in DOMAIN family_sizes |-> family_sizes[i][1] * family_sizes[i][2]]
        IN /\ \A i \in DOMAIN family_sizes :
                  /\ family_sizes[i][2] >= 1
                  /\ family_sizes[i][2] =
                        Cardinality({j \in DOMAIN families :
                                        Len(famobj[families[j]]) = family_sizes[i][1]})
           /\ Cardinality(listed) = Len(family_sizes)
           /\ \A j \in DOMAIN families : Len(famobj[families[j]]) \in listed
           /\ SumOver(DOMAIN family_sizes, product) = in_family
           /\ prob_family = <<in_family, Cardinality(DOMAIN relays)>>

\* A completed scale_horizontally that leaves two families of two members
\* and one relay without a family.
C29_TwoFamiliesOfTwo ==
    /\ Completed("scale_horizontally")
    /\ phase = "loaded"
    /\ family_sizes = << <<2, 2>> >>
    /\ prob_family = <<4, 5>>

\* C30: a completed scale_vertically_by_bandwidth_rank or
\* scale_flag_groups_vertically leaves the set of fingerprints, every
\* relay's flags, AS, family reference and remaining attributes, and the
\* families collection as they were; only bandwidth weights and the data
\* derived from them change.
C30_VerticalScalingFrame ==
    [][(/\ call'.op \in {"scale_vertically_by_bandwidth_rank",
                         "scale_flag_groups_vertically"}
        /\ call'.result = "ok"
        /\ phase = "loaded")
       => /\ DOMAIN relays' = DOMAIN relays
          /\ \A k \in DOMAIN relays :
                 [relays'[k] EXCEPT !.bandwidth_weight = 0]
                     = [relays[k] EXCEPT !.bandwidth_weight = 0]
          /\ families' = families
          /\ famobj' = famobj]_vars

\* A completed scale_vertically_by_bandwidth_rank that changed the
\* bandwidth weight of a relay in a family and the stored weights.
C30_FamilyMemberRescaled ==
    /\ Completed("scale_vertically_by_bandwidth_rank")
    /\ families # <<>>
    /\ \E k \in DOMAIN relays :
          relays[k].family # 0 /\ call.before[k] # relays[k].bandwidth_weight

====
